---- MODULE Spec2Model ----
(***************************************************************************)
(* cherry-db-manager: the value codec (utils.rs), the entry scanner, the   *)
(* locator and the rewrite step (manager.rs) and the typed facade.         *)
(*                                                                         *)
(* Text is a sequence of Unicode scalar values (a Rust String), a store    *)
(* value is a sequence of bytes 0..255.  JSON is modelled on the fragment  *)
(* null / booleans / integers / strings / arrays / objects; objects are    *)
(* serde_json's default BTreeMap (keys kept sorted, a repeated key keeps   *)
(* its last value).  Floating point numbers and \u escapes are outside the *)
(* fragment: no text of the model contains them.                           *)
(***************************************************************************)
EXTENDS Integers, Sequences, FiniteSets, TLC

(***************************************************************************)
(* serde_json::Value.  One record shape for every variant, so that two     *)
(* values of different variants compare without a type clash:              *)
(*   t  the variant,  b  a boolean,  n  an integer,  s  a string,          *)
(*   k  the keys of an object (sorted),  c  the children of an array or    *)
(*   the member values of an object (c[i] belongs to k[i]).                *)
(***************************************************************************)
VNull == [t |-> "null", b |-> FALSE, n |-> 0, s |-> <<>>, k |-> <<>>, c |-> <<>>]

VBool(x) == [t |-> "bool", b |-> x, n |-> 0, s |-> <<>>, k |-> <<>>, c |-> <<>>]

VNum(x) == [t |-> "num", b |-> FALSE, n |-> x, s |-> <<>>, k |-> <<>>, c |-> <<>>]

VStr(x) == [t |-> "str", b |-> FALSE, n |-> 0, s |-> x, k |-> <<>>, c |-> <<>>]

VArr(xs) == [t |-> "arr", b |-> FALSE, n |-> 0, s |-> <<>>, k |-> <<>>, c |-> xs]

VObj(ks, xs) == [t |-> "obj", b |-> FALSE, n |-> 0, s |-> <<>>, k |-> ks, c |-> xs]

\* The characters of JSON syntax, as code points.
Ch ==
  [quote |-> 34, bslash |-> 92, slash |-> 47, colon |-> 58, comma |-> 44,
   lbrace |-> 123, rbrace |-> 125, lbrack |-> 91, rbrack |-> 93,
   minus |-> 45, zero |-> 48, nine |-> 57, space |-> 32, nl |-> 10,
   tab |-> 9, cr |-> 13, dot |-> 46, lowerE |-> 101, upperE |-> 69,
   lowerN |-> 110, lowerT |-> 116, lowerR |-> 114, lowerB |-> 98,
   lowerF |-> 102, bs |-> 8, ff |-> 12]

TxtTrue == <<116, 114, 117, 101>>

TxtFalse == <<102, 97, 108, 115, 101>>

TxtNull == <<110, 117, 108, 108>>

TxtMcp == <<109, 99, 112>>

TxtServers == <<115, 101, 114, 118, 101, 114, 115>>

TxtId == <<105, 100>>

TxtIsActive == <<105, 115, 65, 99, 116, 105, 118, 101>>

TxtType == <<116, 121, 112, 101>>

TxtName == <<110, 97, 109, 101>>

TxtCommand == <<99, 111, 109, 109, 97, 110, 100>>

(***************************************************************************)
(* BTreeMap<String, Value>: the order of String keys (lexicographic on the *)
(* scalar values, which is the byte order of UTF-8), lookup and insertion. *)
(***************************************************************************)
\* x < y: x is a proper prefix of y, or the first position where they differ
\* holds the smaller character in x.
StrLess(x, y) ==
  \/ Len(x) < Len(y) /\ SubSeq(y, 1, Len(x)) = x
  \/ \E p \in 1..Len(x) :
       /\ p <= Len(y)
       /\ x[p] < y[p]
       /\ \A q \in 1..(p - 1) : x[q] = y[q]

KeyIndex(ks, key) ==
  IF \E i \in 1..Len(ks) : ks[i] = key
  THEN CHOOSE i \in 1..Len(ks) : ks[i] = key
  ELSE 0

\* Map::insert on an object value: replace the value of a present key, or
\* insert the new key at its sorted position.  i is the index of the key (0
\* when absent), p the number of smaller keys.
MapInsertAt(obj, key, val, i, p) ==
  IF i # 0
  THEN VObj(obj.k, [obj.c EXCEPT ![i] = val])
  ELSE VObj(SubSeq(obj.k, 1, p) \o <<key>> \o SubSeq(obj.k, p + 1, Len(obj.k)),
            SubSeq(obj.c, 1, p) \o <<val>> \o SubSeq(obj.c, p + 1, Len(obj.c)))

MapInsert(obj, key, val) ==
  MapInsertAt(obj, key, val, KeyIndex(obj.k, key),
              Cardinality({j \in 1..Len(obj.k) : StrLess(obj.k[j], key)}))

\* Value::get(key): the member of an object, nothing for any other variant.
\* The result is a sequence of length 0 (None) or 1 (Some).
ValueGetAt(v, i) == IF i # 0 THEN <<v.c[i]>> ELSE <<>>

ValueGet(v, key) == IF v.t = "obj" THEN ValueGetAt(v, KeyIndex(v.k, key)) ELSE <<>>

(***************************************************************************)
(* Compact serialization (Value::to_string, serde_json::to_string).        *)
(***************************************************************************)
RECURSIVE Digits(_)
Digits(n) ==
  IF n < 10 THEN <<Ch.zero + n>>
  ELSE Append(Digits(n \div 10), Ch.zero + (n % 10))

SerNum(n) == IF n < 0 THEN <<Ch.minus>> \o Digits(0 - n) ELSE Digits(n)

EscapeChar(ch) ==
  IF ch = Ch.quote THEN <<Ch.bslash, Ch.quote>>
  ELSE IF ch = Ch.bslash THEN <<Ch.bslash, Ch.bslash>>
  ELSE IF ch = Ch.nl THEN <<Ch.bslash, Ch.lowerN>>
  ELSE IF ch = Ch.tab THEN <<Ch.bslash, Ch.lowerT>>
  ELSE IF ch = Ch.cr THEN <<Ch.bslash, Ch.lowerR>>
  ELSE IF ch = Ch.bs THEN <<Ch.bslash, Ch.lowerB>>
  ELSE IF ch = Ch.ff THEN <<Ch.bslash, Ch.lowerF>>
  ELSE <<ch>>

\* The concatenation of parts[lo..hi], halving the range so that a long text
\* is put together in few nested steps.
RECURSIVE Flatten(_, _, _)
Flatten(parts, lo, hi) ==
  IF lo > hi THEN <<>>
  ELSE IF lo = hi THEN parts[lo]
  ELSE Flatten(parts, lo, (lo + hi) \div 2) \o Flatten(parts, ((lo + hi) \div 2) + 1, hi)

Escape(str) == Flatten([i \in 1..Len(str) |-> EscapeChar(str[i])], 1, Len(str))

SerStr(str) == <<Ch.quote>> \o Escape(str) \o <<Ch.quote>>

RECURSIVE Ser(_)
RECURSIVE SerElems(_, _)
RECURSIVE SerMembers(_, _, _)
SerElems(xs, i) ==
  IF i > Len(xs) THEN <<>>
  ELSE (IF i > 1 THEN <<Ch.comma>> ELSE <<>>) \o Ser(xs[i]) \o SerElems(xs, i + 1)

SerMembers(ks, xs, i) ==
  IF i > Len(ks) THEN <<>>
  ELSE (IF i > 1 THEN <<Ch.comma>> ELSE <<>>) \o SerStr(ks[i]) \o <<Ch.colon>>
       \o Ser(xs[i]) \o SerMembers(ks, xs, i + 1)

Ser(v) ==
  CASE v.t = "null" -> TxtNull
    [] v.t = "bool" -> (IF v.b THEN TxtTrue ELSE TxtFalse)
    [] v.t = "num" -> SerNum(v.n)
    [] v.t = "str" -> SerStr(v.s)
    [] v.t = "arr" -> <<Ch.lbrack>> \o SerElems(v.c, 1) \o <<Ch.rbrack>>
    [] v.t = "obj" -> <<Ch.lbrace>> \o SerMembers(v.k, v.c, 1) \o <<Ch.rbrace>>

(***************************************************************************)
(* Parsing (serde_json::from_str into a Value).  A parse step returns      *)
(* [ok, v, i]: whether it succeeded, the value, and the index of the first *)
(* character it did not consume.  A step that needs an intermediate result *)
(* more than once hands it to a second operator as a parameter.            *)
(***************************************************************************)
PFail == [ok |-> FALSE, v |-> VNull, i |-> 0]

POk(val, next) == [ok |-> TRUE, v |-> val, i |-> next]

\* The character at index i, or -1 at the end of the text.
At(txt, i) == IF i >= 1 /\ i <= Len(txt) THEN txt[i] ELSE -1

IsWs(ch) == ch \in {Ch.space, Ch.nl, Ch.tab, Ch.cr}

IsDigit(ch) == ch >= Ch.zero /\ ch <= Ch.nine

\* The first index from i on that holds no whitespace (Len + 1 at the end).
SkipWs(txt, i) ==
  CHOOSE j \in i..(Len(txt) + 1) :
    ~IsWs(At(txt, j)) /\ \A m \in i..(j - 1) : IsWs(At(txt, m))

\* parse_ident: the rest of a literal.
ParseLit(txt, i, lit, val) ==
  IF i + Len(lit) - 1 <= Len(txt) /\ SubSeq(txt, i, i + Len(lit) - 1) = lit
  THEN POk(val, i + Len(lit))
  ELSE PFail

RECURSIVE ParseDigits(_, _, _)
ParseDigits(txt, i, acc) ==
  IF IsDigit(At(txt, i))
  THEN ParseDigits(txt, i + 1, acc * 10 + (At(txt, i) - Ch.zero))
  ELSE [n |-> acc, i |-> i]

\* parse_integer at a digit: a leading 0 may not be followed by a digit.  A
\* fraction or an exponent makes the number a float, outside the fragment.
UnsignedOf(txt, d) ==
  IF At(txt, d.i) \in {Ch.dot, Ch.lowerE, Ch.upperE} THEN PFail ELSE POk(VNum(d.n), d.i)

ParseUnsigned(txt, i) ==
  IF ~IsDigit(At(txt, i)) THEN PFail
  ELSE IF At(txt, i) = Ch.zero /\ IsDigit(At(txt, i + 1)) THEN PFail
  ELSE UnsignedOf(txt, ParseDigits(txt, i, 0))

Negated(r) == IF r.ok /\ r.v.n # 0 THEN POk(VNum(0 - r.v.n), r.i) ELSE PFail

ParseNumber(txt, i) ==
  IF At(txt, i) = Ch.minus THEN Negated(ParseUnsigned(txt, i + 1))
  ELSE ParseUnsigned(txt, i)

\* The character an escape letter stands for, or -1 for an invalid escape
\* (\u is outside the fragment).
Unescape(ch) ==
  IF ch \in {Ch.quote, Ch.bslash, Ch.slash} THEN ch
  ELSE IF ch = Ch.lowerN THEN Ch.nl
  ELSE IF ch = Ch.lowerT THEN Ch.tab
  ELSE IF ch = Ch.lowerR THEN Ch.cr
  ELSE IF ch = Ch.lowerB THEN Ch.bs
  ELSE IF ch = Ch.lowerF THEN Ch.ff
  ELSE -1

\* The number of consecutive backslashes that end at index p, none of them
\* before index lo.
RECURSIVE RunBack(_, _, _)
RunBack(txt, lo, p) ==
  IF p >= lo /\ At(txt, p) = Ch.bslash THEN 1 + RunBack(txt, lo, p - 1) ELSE 0

\* parse_str, from the character after the opening quote (index i).  The
\* scanner reads left to right, a backslash taking the next character with
\* it; so the character at p is taken by an escape exactly when an odd
\* number of backslashes ends at p - 1, and the string ends at the first
\* quote that no escape takes.  An invalid escape or a raw control character
\* before that quote is an error.
StrTaken(txt, i, p) == RunBack(txt, i, p - 1) % 2 = 1

StrEnd(txt, i, j) == txt[j] = Ch.quote /\ ~StrTaken(txt, i, j)

\* What the character at p adds to the string, and whether it is an error.
StrPiece(txt, i, p) ==
  IF StrTaken(txt, i, p) THEN <<Unescape(txt[p])>>
  ELSE IF txt[p] = Ch.bslash THEN <<>>
  ELSE <<txt[p]>>

StrBad(txt, i, p) ==
  IF StrTaken(txt, i, p) THEN Unescape(txt[p]) = -1 ELSE txt[p] < Ch.space

StrUpTo(txt, i, close) ==
  IF \E p \in i..(close - 1) : StrBad(txt, i, p) THEN PFail
  ELSE POk(VStr(Flatten([p \in 1..(close - i) |-> StrPiece(txt, i, i + p - 1)],
                        1, close - i)),
           close + 1)

ParseStrBody(txt, i) ==
  IF ~\E j \in i..Len(txt) : StrEnd(txt, i, j) THEN PFail
  ELSE StrUpTo(txt, i,
         CHOOSE j \in i..Len(txt) :
           StrEnd(txt, i, j) /\ \A m \in i..(j - 1) : ~StrEnd(txt, i, m))

RECURSIVE ParseValue(_, _)
RECURSIVE ParseElems(_, _, _)
RECURSIVE ParseMembers(_, _, _)
\* SeqAccess: a value r, then at j "," and another value, or "]".
ElemsNext(txt, acc, r, j) ==
  IF At(txt, j) = Ch.comma THEN ParseElems(txt, j + 1, Append(acc, r.v))
  ELSE IF At(txt, j) = Ch.rbrack THEN POk(VArr(Append(acc, r.v)), j + 1)
  ELSE PFail

ElemsAfter(txt, acc, r) ==
  IF ~r.ok THEN PFail ELSE ElemsNext(txt, acc, r, SkipWs(txt, r.i))

ParseElems(txt, i, acc) == ElemsAfter(txt, acc, ParseValue(txt, i))

\* MapAccess: a string key, ":", a value r, then at e "," and another member,
\* or "}".
MembersNext(txt, obj, e) ==
  IF At(txt, e) = Ch.comma THEN ParseMembers(txt, e + 1, obj)
  ELSE IF At(txt, e) = Ch.rbrace THEN POk(obj, e + 1)
  ELSE PFail

MembersAfterValue(txt, obj, key, r) ==
  IF ~r.ok THEN PFail
  ELSE MembersNext(txt, MapInsert(obj, key.v.s, r.v), SkipWs(txt, r.i))

MembersAfterColon(txt, obj, key, c) ==
  IF At(txt, c) = Ch.colon THEN MembersAfterValue(txt, obj, key, ParseValue(txt, c + 1))
  ELSE PFail

MembersAfterKey(txt, obj, key) ==
  IF ~key.ok THEN PFail ELSE MembersAfterColon(txt, obj, key, SkipWs(txt, key.i))

MembersAt(txt, obj, j) ==
  IF At(txt, j) = Ch.quote THEN MembersAfterKey(txt, obj, ParseStrBody(txt, j + 1))
  ELSE PFail

ParseMembers(txt, i, obj) == MembersAt(txt, obj, SkipWs(txt, i))

\* The array or the object that opens at j; e is the first index after the
\* bracket that holds no whitespace.
ArrayAt(txt, j, e) ==
  IF At(txt, e) = Ch.rbrack THEN POk(VArr(<<>>), e + 1) ELSE ParseElems(txt, j + 1, <<>>)

ObjectAt(txt, j, e) ==
  IF At(txt, e) = Ch.rbrace THEN POk(VObj(<<>>, <<>>), e + 1)
  ELSE ParseMembers(txt, j + 1, VObj(<<>>, <<>>))

ValueAt(txt, j, ch) ==
  IF ch = Ch.lowerN THEN ParseLit(txt, j, TxtNull, VNull)
  ELSE IF ch = Ch.lowerT THEN ParseLit(txt, j, TxtTrue, VBool(TRUE))
  ELSE IF ch = Head(TxtFalse) THEN ParseLit(txt, j, TxtFalse, VBool(FALSE))
  ELSE IF ch = Ch.minus \/ IsDigit(ch) THEN ParseNumber(txt, j)
  ELSE IF ch = Ch.quote THEN ParseStrBody(txt, j + 1)
  ELSE IF ch = Ch.lbrack THEN ArrayAt(txt, j, SkipWs(txt, j + 1))
  ELSE IF ch = Ch.lbrace THEN ObjectAt(txt, j, SkipWs(txt, j + 1))
  ELSE PFail

ValueFrom(txt, j) == ValueAt(txt, j, At(txt, j))

ParseValue(txt, i) == ValueFrom(txt, SkipWs(txt, i))

\* serde_json::from_str::<Value>: one value, then only whitespace.  The
\* result is [ok, v].
FromStrEnd(txt, r) ==
  IF r.ok /\ SkipWs(txt, r.i) > Len(txt)
  THEN [ok |-> TRUE, v |-> r.v]
  ELSE [ok |-> FALSE, v |-> VNull]

FromStr(txt) == FromStrEnd(txt, ParseValue(txt, 1))

(***************************************************************************)
(* UTF-16 (str::encode_utf16, String::from_utf16) and little-endian bytes. *)
(***************************************************************************)
IsHighSurrogate(u) == u >= 55296 /\ u <= 56319

IsLowSurrogate(u) == u >= 56320 /\ u <= 57343

EncodeUtf16(txt) ==
  Flatten([i \in 1..Len(txt) |->
             IF txt[i] < 65536 THEN <<txt[i]>>
             ELSE <<55296 + ((txt[i] - 65536) \div 1024),
                    56320 + ((txt[i] - 65536) % 1024)>>],
          1, Len(txt))

\* String::from_utf16: [ok, txt].  A high surrogate must be followed by a low
\* one and a low surrogate must follow a high one; any other surrogate is
\* unpaired, an error.  A pair gives one scalar value.
Unpaired(units, i) ==
  \/ IsHighSurrogate(units[i]) /\ ~(i < Len(units) /\ IsLowSurrogate(units[i + 1]))
  \/ IsLowSurrogate(units[i]) /\ ~(i > 1 /\ IsHighSurrogate(units[i - 1]))

Utf16Piece(units, i) ==
  IF IsHighSurrogate(units[i])
  THEN <<65536 + (units[i] - 55296) * 1024 + (units[i + 1] - 56320)>>
  ELSE IF IsLowSurrogate(units[i]) THEN <<>>
  ELSE <<units[i]>>

FromUtf16(units) ==
  IF \E i \in 1..Len(units) : Unpaired(units, i) THEN [ok |-> FALSE, txt |-> <<>>]
  ELSE [ok |-> TRUE,
        txt |-> Flatten([i \in 1..Len(units) |-> Utf16Piece(units, i)], 1, Len(units))]

\* The two bytes of every unit in the other order: the high byte first.
ToBeBytes(units) ==
  [i \in 1..(2 * Len(units)) |->
     IF i % 2 = 1 THEN units[(i + 1) \div 2] \div 256 ELSE units[i \div 2] % 256]

\* u16::to_le_bytes of every unit: the low byte, then the high byte.
ToLeBytes(units) ==
  [i \in 1..(2 * Len(units)) |->
     IF i % 2 = 1 THEN units[(i + 1) \div 2] % 256 ELSE units[i \div 2] \div 256]

\* chunks_exact(2) and u16::from_le_bytes.
FromLeBytes(bytes) ==
  [i \in 1..(Len(bytes) \div 2) |-> bytes[2 * i - 1] + 256 * bytes[2 * i]]

\* encode_json_to_bytes
encode_json_to_bytes(json) == <<0>> \o ToLeBytes(EncodeUtf16(Ser(json)))

\* decode_utf16_le_bytes: [ok, err, v].
DecodeErr(e) == [ok |-> FALSE, err |-> e, v |-> VNull]

DecodeJson(json) ==
  IF ~json.ok THEN DecodeErr("JsonError") ELSE [ok |-> TRUE, err |-> "", v |-> json.v]

DecodeText(str) ==
  IF ~str.ok THEN DecodeErr("EncodingError") ELSE DecodeJson(FromStr(str.txt))

\* A decode that also rejects a first byte other than 0.
DecodeCheckingHeader(bytes) ==
  IF bytes = <<>> THEN DecodeErr("EncodingError")
  ELSE IF bytes[1] # 0 THEN DecodeErr("EncodingError")
  ELSE IF (Len(bytes) - 1) % 2 # 0 THEN DecodeErr("EncodingError")
  ELSE DecodeText(FromUtf16(FromLeBytes(Tail(bytes))))

decode_utf16_le_bytes(bytes) ==
  IF bytes = <<>> THEN DecodeErr("EncodingError")
  ELSE IF (Len(bytes) - 1) % 2 # 0 THEN DecodeErr("EncodingError")
  ELSE DecodeText(FromUtf16(FromLeBytes(Tail(bytes))))

(***************************************************************************)
(* The typed records (types.rs).  A server record is                       *)
(* [id, isActive, type, name, command]; command is an Option, a sequence   *)
(* of length 0 (None) or 1 (Some).  The other optional fields (args, env,  *)
(* baseUrl, headers, longRunning) are None in every record of the model    *)
(* and absent from every document, so they are never written.              *)
(***************************************************************************)
TxtOther == <<111, 116, 104, 101, 114>>

TxtSse == <<115, 115, 101>>

TxtStdio == <<115, 116, 100, 105, 111>>

TxtNode == <<110, 111, 100, 101>>

\* impl From<ServerRequest> for ServerResponse
ServerResponseFrom(req) ==
  [id |-> req.id, isActive |-> req.isActive, type |-> req.type,
   name |-> req.name, command |-> req.command]

\* impl From<ServerResponse> for ServerRequest
ServerRequestFrom(resp) ==
  [id |-> resp.id, isActive |-> resp.isActive, type |-> resp.type,
   name |-> resp.name, command |-> resp.command]

\* Serialize for ServerResponse: the fields in declaration order under their
\* renamed keys; a None command is skipped (skip_serializing_if).
SerField(key, text) == SerStr(key) \o <<Ch.colon>> \o text

SerServer(srv) ==
  <<Ch.lbrace>>
  \o SerField(TxtId, SerStr(srv.id)) \o <<Ch.comma>>
  \o SerField(TxtIsActive, IF srv.isActive THEN TxtTrue ELSE TxtFalse) \o <<Ch.comma>>
  \o SerField(TxtType, SerStr(srv.type)) \o <<Ch.comma>>
  \o SerField(TxtName, SerStr(srv.name))
  \o (IF srv.command # <<>>
      THEN <<Ch.comma>> \o SerField(TxtCommand, SerStr(srv.command[1]))
      ELSE <<>>)
  \o <<Ch.rbrace>>

RECURSIVE SerServers(_, _)
SerServers(servers, i) ==
  IF i > Len(servers) THEN <<>>
  ELSE (IF i > 1 THEN <<Ch.comma>> ELSE <<>>) \o SerServer(servers[i])
       \o SerServers(servers, i + 1)

\* serde_json::to_string(&CherryMcpConfig { servers })
SerConfig(servers) ==
  <<Ch.lbrace>>
  \o SerField(TxtServers, <<Ch.lbrack>> \o SerServers(servers, 1) \o <<Ch.rbrack>>)
  \o <<Ch.rbrace>>

NoServer == [id |-> <<>>, isActive |-> FALSE, type |-> <<>>, name |-> <<>>, command |-> <<>>]

\* Deserialize for ServerResponse from a JSON object: id, type and name must
\* be strings and isActive a boolean; command may be absent, null or a
\* string; unknown fields are ignored.  The result is [ok, srv].  (The
\* documents of the model write a record as an object, never as an array.)
ServerFromFields(id, act, ty, nm, cmd) ==
  IF /\ id # <<>> /\ id[1].t = "str"
     /\ act # <<>> /\ act[1].t = "bool"
     /\ ty # <<>> /\ ty[1].t = "str"
     /\ nm # <<>> /\ nm[1].t = "str"
     /\ (cmd = <<>> \/ cmd[1].t \in {"null", "str"})
  THEN [ok |-> TRUE,
        srv |-> [id |-> id[1].s, isActive |-> act[1].b, type |-> ty[1].s,
                 name |-> nm[1].s,
                 command |-> IF cmd # <<>> /\ cmd[1].t = "str" THEN <<cmd[1].s>> ELSE <<>>]]
  ELSE [ok |-> FALSE, srv |-> NoServer]

ServerFromValue(v) ==
  IF v.t # "obj" THEN [ok |-> FALSE, srv |-> NoServer]
  ELSE ServerFromFields(ValueGet(v, TxtId), ValueGet(v, TxtIsActive),
                        ValueGet(v, TxtType), ValueGet(v, TxtName),
                        ValueGet(v, TxtCommand))

\* serde_json::from_str::<CherryMcpConfig>: an object whose "servers" is an
\* array of server records.  The result is [ok, servers].  The text is read
\* as a value first; no text of the model repeats a key, where the typed
\* parser would report a duplicate field.
ConfigFail == [ok |-> FALSE, servers |-> <<>>]

ConfigFromRecords(recs) ==
  IF \E i \in 1..Len(recs) : ~recs[i].ok THEN ConfigFail
  ELSE [ok |-> TRUE, servers |-> [i \in 1..Len(recs) |-> recs[i].srv]]

ConfigFromList(list) ==
  IF list = <<>> \/ list[1].t # "arr" THEN ConfigFail
  ELSE ConfigFromRecords([i \in 1..Len(list[1].c) |-> ServerFromValue(list[1].c[i])])

ConfigFromValue(json) ==
  IF ~json.ok \/ json.v.t # "obj" THEN ConfigFail
  ELSE ConfigFromList(ValueGet(json.v, TxtServers))

ConfigFromStr(txt) == ConfigFromValue(FromStr(txt))

(***************************************************************************)
(* The store and the manager (utils.rs, manager.rs).  A store is the       *)
(* sequence of its values in iteration order; the key of a value is its    *)
(* index.  The path exists and the store opens, so InvalidPath and         *)
(* DatabaseError do not occur.                                             *)
(***************************************************************************)
\* DB::put under a key the store holds.
DbPut(db, key, value) == [db EXCEPT ![key] = value]

\* open_database_and_read_entries: every value is kept; json_data is the
\* decoded document, or None when decoding failed (.ok()).
EntryOf(key, value, d) ==
  [key |-> key, value |-> value, json_data |-> IF d.ok THEN <<d.v>> ELSE <<>>]

open_database_and_read_entries(db) ==
  [key \in 1..Len(db) |-> EntryOf(key, db[key], decode_utf16_le_bytes(db[key]))]

\* find_mcp_config_internal: [ok, err, config, json_data, key].  config and
\* json_data are the pair the code returns; key records which entry matched.
RECURSIVE FindFrom(_, _)
FindErr(e) == [ok |-> FALSE, err |-> e, config |-> <<>>, json_data |-> VNull, key |-> 0]

\* A locate that passes over an entry whose "mcp" string does not parse.
FindParsedSkipping(entries, i, cfg) ==
  IF ~cfg.ok THEN FindFrom(entries, i + 1)
  ELSE [ok |-> TRUE, err |-> "", config |-> cfg.servers,
        json_data |-> entries[i].json_data[1], key |-> entries[i].key]

\* The entry at i holds a string "mcp": the string parsed as the config
\* (cfg); a parse error is returned by the ? operator.
FindParsed(entries, i, cfg) ==
  IF ~cfg.ok THEN FindErr("JsonError")
  ELSE [ok |-> TRUE, err |-> "", config |-> cfg.servers,
        json_data |-> entries[i].json_data[1], key |-> entries[i].key]

\* A locate that takes an "mcp" field of any type for the config string.
FindMcpOfAnyType(entries, i, mcp) ==
  IF mcp = <<>> THEN FindFrom(entries, i + 1)
  ELSE FindParsed(entries, i, ConfigFromStr(mcp[1].s))

\* json_data.get("mcp") and as_str(): an entry without the field, or with a
\* field that is no string, is passed over.
FindMcp(entries, i, mcp) ==
  IF mcp = <<>> \/ mcp[1].t # "str" THEN FindFrom(entries, i + 1)
  ELSE FindParsed(entries, i, ConfigFromStr(mcp[1].s))

FindAt(entries, i, json_data) ==
  IF json_data = <<>> THEN FindFrom(entries, i + 1)
  ELSE FindMcp(entries, i, ValueGet(json_data[1], TxtMcp))

FindFrom(entries, i) ==
  IF i > Len(entries) THEN FindErr("ConfigNotFound")
  ELSE FindAt(entries, i, entries[i].json_data)

find_mcp_config_internal(db) == FindFrom(open_database_and_read_entries(db), 1)

\* The key of the last entry that carries a document, 0 when there is none.
TargetKeyLast(entries) ==
  IF \A i \in 1..Len(entries) : entries[i].json_data = <<>> THEN 0
  ELSE CHOOSE i \in 1..Len(entries) :
         /\ entries[i].json_data # <<>>
         /\ \A j \in (i + 1)..Len(entries) : entries[j].json_data = <<>>

\* entries.into_iter().find(|entry| entry.json_data.is_some()): the key of
\* the first entry that carries a document, 0 when there is none.
TargetKey(entries) ==
  IF \A i \in 1..Len(entries) : entries[i].json_data = <<>> THEN 0
  ELSE CHOOSE i \in 1..Len(entries) :
         /\ entries[i].json_data # <<>>
         /\ \A j \in 1..(i - 1) : entries[j].json_data = <<>>

\* update_database_entry: [ok, err, db, puts]; db is the store afterwards,
\* puts the sequence of puts issued.
WriteErr(db, e) == [ok |-> FALSE, err |-> e, db |-> db, puts |-> <<>>]

UpdatePut(db, target, encoded_data) ==
  [ok |-> TRUE, err |-> "", db |-> DbPut(db, target, encoded_data),
   puts |-> <<[key |-> target, value |-> encoded_data]>>]

UpdateAt(db, updated_json, target) ==
  IF target = 0 THEN WriteErr(db, "ConfigNotFound")
  ELSE UpdatePut(db, target, encode_json_to_bytes(updated_json))

update_database_entry(db, updated_json) ==
  UpdateAt(db, updated_json, TargetKey(open_database_and_read_entries(db)))

\* read_mcp_config: [ok, err, servers].
ReadFound(found) ==
  IF ~found.ok THEN [ok |-> FALSE, err |-> found.err, servers |-> <<>>]
  ELSE [ok |-> TRUE, err |-> "", servers |-> found.config]

read_mcp_config(db) == ReadFound(find_mcp_config_internal(db))

\* The servers of a request converted one by one.
ToResponses(servers) == [i \in 1..Len(servers) |-> ServerResponseFrom(servers[i])]

ToRequests(servers) == [i \in 1..Len(servers) |-> ServerRequestFrom(servers[i])]

\* A write that replaces the whole document by one that holds only "mcp".
WriteFoundFresh(db, config, found) ==
  IF ~found.ok THEN WriteErr(db, found.err)
  ELSE update_database_entry(db,
         VObj(<<TxtMcp>>, <<VStr(SerConfig(ToResponses(config)))>>))

\* write_mcp_config, once the entry is located: json_data["mcp"] becomes the
\* string of the new config, and the document is written back.
WriteFound(db, config, found) ==
  IF ~found.ok THEN WriteErr(db, found.err)
  ELSE update_database_entry(db,
         MapInsert(found.json_data, TxtMcp, VStr(SerConfig(ToResponses(config)))))

write_mcp_config(db, config) == WriteFound(db, config, find_mcp_config_internal(db))

\* list_servers: [ok, err, servers, total_count].
ListOf(config) ==
  [ok |-> config.ok, err |-> config.err, servers |-> config.servers,
   total_count |-> Len(config.servers)]

list_servers(db) == ListOf(read_mcp_config(db))

\* A retain that drops only the first record carrying the identifier.
RetainFirst(servers, id) ==
  IF \A i \in 1..Len(servers) : servers[i].id # id THEN servers
  ELSE Flatten([i \in 1..Len(servers) |->
                  IF servers[i].id = id /\ \A j \in 1..(i - 1) : servers[j].id # id
                  THEN <<>> ELSE <<servers[i]>>],
               1, Len(servers))

\* servers.retain(|s| s.id != id)
Retain(servers, id) ==
  Flatten([i \in 1..Len(servers) |-> IF servers[i].id # id THEN <<servers[i]>> ELSE <<>>],
          1, Len(servers))

\* An add that pushes the record without the retain.
AddToKeeping(db, server, config) ==
  IF ~config.ok THEN WriteErr(db, config.err)
  ELSE write_mcp_config(db,
         ToRequests(Append(config.servers, ServerResponseFrom(server))))

\* add_server, once the config is read: retain, push, convert, write.
AddTo(db, server, config) ==
  IF ~config.ok THEN WriteErr(db, config.err)
  ELSE write_mcp_config(db,
         ToRequests(Append(Retain(config.servers, server.id), ServerResponseFrom(server))))

add_server(db, server) == AddTo(db, server, read_mcp_config(db))

\* A remove that writes the list back whether or not a record was dropped.
RemoveKeptAlways(db, server_id, config, kept) == write_mcp_config(db, ToRequests(kept))

\* remove_server, once the config is read and the list retained (kept).
RemoveKept(db, server_id, config, kept) ==
  IF Len(kept) = Len(config.servers) THEN WriteErr(db, "ServerNotFound")
  ELSE write_mcp_config(db, ToRequests(kept))

RemoveFrom(db, server_id, config) ==
  IF ~config.ok THEN WriteErr(db, config.err)
  ELSE RemoveKept(db, server_id, config, Retain(config.servers, server_id))

remove_server(db, server_id) == RemoveFrom(db, server_id, read_mcp_config(db))

\* server_exists: [ok, err, exists].
ExistsIn(server_id, config) ==
  IF ~config.ok THEN [ok |-> FALSE, err |-> config.err, exists |-> FALSE]
  ELSE [ok |-> TRUE, err |-> "",
        exists |-> \E i \in 1..Len(config.servers) : config.servers[i].id = server_id]

server_exists(db, server_id) == ExistsIn(server_id, read_mcp_config(db))

(***************************************************************************)
(* The state machine.  store is the content of the database; last is the   *)
(* call the caller made last, with its arguments, its result, the store it *)
(* ran on (pre) and the puts it issued; codec is the last step of a caller *)
(* that uses the codec alone.  The manager keeps no state between calls.   *)
(***************************************************************************)
VARIABLES store, last, codec

vars == <<store, last, codec>>

\* The bounds: the number of keys of a store and the length of an array of
\* the codec's documents.
NKeys == 2

MaxArr == 2

SrvA1 ==
  [id |-> <<97>>, isActive |-> TRUE, type |-> TxtSse, name |-> <<83>>, command |-> <<>>]

SrvA2 ==
  [id |-> <<97>>, isActive |-> FALSE, type |-> TxtStdio, name |-> <<84>>,
   command |-> <<TxtNode>>]

SrvB1 ==
  [id |-> <<98>>, isActive |-> TRUE, type |-> TxtSse, name |-> <<83>>, command |-> <<>>]

\* The arguments of the calls.
Servers == {SrvA2, SrvB1}

Requests == {<<>>, <<SrvA1, SrvA2>>}

Ids == {<<97>>, <<98>>}

\* Documents of a store: without "mcp", with an "mcp" that is an object,
\* with an "mcp" string that is no config, and with a config of no and of
\* one server.
DocPlain == VObj(<<TxtOther>>, <<VNum(2)>>)

DocMcpObject == VObj(<<TxtMcp>>, <<VObj(<<TxtServers>>, <<VArr(<<>>)>>)>>)

DocMcpBad == VObj(<<TxtMcp, TxtOther>>, <<VStr(<<Ch.lbrace, Ch.rbrace>>), VNum(3)>>)

DocEmptyList == VObj(<<TxtMcp>>, <<VStr(SerConfig(<<>>))>>)

DocOneServer == VObj(<<TxtMcp, TxtOther>>, <<VStr(SerConfig(<<SrvA1>>)), VNum(1)>>)

\* Values of a store: empty, with an odd payload, with an unpaired
\* surrogate, with a text that is no JSON, with a header byte other than 0,
\* and the encoded documents.
ValEmpty == <<>>

ValOdd == <<0, 123>>

ValBadUtf16 == <<0, 0, 216>>

ValBadJson == <<0, 123, 0>>

ValPlain == encode_json_to_bytes(DocPlain)

ValMcpObject == encode_json_to_bytes(DocMcpObject)

ValMcpBad == encode_json_to_bytes(DocMcpBad)

ValEmptyList == encode_json_to_bytes(DocEmptyList)

ValOneServer == encode_json_to_bytes(DocOneServer)

ValHeader == <<1>> \o Tail(ValEmptyList)

Values ==
  {ValEmpty, ValOdd, ValBadUtf16, ValBadJson, ValPlain, ValMcpObject, ValMcpBad,
   ValEmptyList, ValOneServer, ValHeader}

MainValues == {ValBadJson, ValPlain, ValMcpBad, ValOneServer}

StoresOver(vals) == UNION {[1..n -> vals] : n \in 0..NKeys}

NoCall ==
  [op |-> "none", id |-> <<>>, server |-> NoServer, config |-> <<>>, ok |-> FALSE,
   err |-> "", servers |-> <<>>, total_count |-> 0, exists |-> FALSE,
   pre |-> <<>>, puts |-> <<>>]

CodecIdle ==
  [op |-> "none", doc |-> VNull, bytes |-> <<>>, ok |-> FALSE, err |-> "", v |-> VNull]

Init ==
  /\ store \in StoresOver(MainValues)
  /\ last = NoCall
  /\ codec = CodecIdle

\* The calls of the facade.  A call is one step: it runs on the store as it
\* is and leaves the store as its puts made it.
ReadReturns(r) ==
  /\ last' = [NoCall EXCEPT !.op = "read", !.ok = r.ok, !.err = r.err,
                            !.servers = r.servers, !.pre = store]
  /\ UNCHANGED <<store, codec>>

ReadMcpConfig == last.op = "none" /\ ReadReturns(read_mcp_config(store))

ListReturns(r) ==
  /\ last' = [NoCall EXCEPT !.op = "list", !.ok = r.ok, !.err = r.err,
                            !.servers = r.servers, !.total_count = r.total_count,
                            !.pre = store]
  /\ UNCHANGED <<store, codec>>

ListServers == last.op = "none" /\ ListReturns(list_servers(store))

ExistsReturns(server_id, r) ==
  /\ last' = [NoCall EXCEPT !.op = "exists", !.id = server_id, !.ok = r.ok,
                            !.err = r.err, !.exists = r.exists, !.pre = store]
  /\ UNCHANGED <<store, codec>>

ServerExists(server_id) ==
  last.op = "none" /\ ExistsReturns(server_id, server_exists(store, server_id))

WriteReturns(call, r) ==
  /\ last' = [call EXCEPT !.ok = r.ok, !.err = r.err, !.pre = store, !.puts = r.puts]
  /\ store' = r.db
  /\ UNCHANGED codec

WriteMcpConfig(config) ==
  /\ last.op = "none"
  /\ WriteReturns([NoCall EXCEPT !.op = "write", !.config = config],
                  write_mcp_config(store, config))

AddServer(server) ==
  /\ last.op = "none"
  /\ WriteReturns([NoCall EXCEPT !.op = "add", !.id = server.id, !.server = server],
                  add_server(store, server))

RemoveServer(server_id) ==
  /\ last.op = "none"
  /\ WriteReturns([NoCall EXCEPT !.op = "remove", !.id = server_id],
                  remove_server(store, server_id))

\* The caller is done with the result of its last call.
Return ==
  /\ last.op # "none" \/ codec.op # "none"
  /\ last' = NoCall
  /\ codec' = CodecIdle
  /\ UNCHANGED store

Next ==
  \/ ReadMcpConfig
  \/ ListServers
  \/ \E server_id \in Ids : ServerExists(server_id)
  \/ \E config \in Requests : WriteMcpConfig(config)
  \/ \E server \in Servers : AddServer(server)
  \/ \E server_id \in Ids : RemoveServer(server_id)
  \/ Return

Spec == Init /\ [][Next]_vars

\* The reading calls on stores of every kind of value.
LocateInit ==
  /\ store \in StoresOver(Values)
  /\ last = NoCall
  /\ codec = CodecIdle

LocateNext ==
  \/ ReadMcpConfig
  \/ ListServers
  \/ \E server_id \in Ids : ServerExists(server_id)
  \/ Return

LocateSpec == LocateInit /\ [][LocateNext]_vars

\* The codec alone: a document is encoded, and the bytes are decoded.
Strings ==
  {<<>>, <<97>>, <<Ch.quote>>, <<Ch.bslash>>, <<Ch.nl>>, <<Ch.bs>>, <<233>>, <<128512>>,
   <<Ch.bslash, Ch.lowerN>>, <<97, Ch.quote, Ch.tab, 8364>>}

Scalars ==
  {VNull, VBool(TRUE), VBool(FALSE), VNum(0), VNum(-12), VNum(305)}
  \cup {VStr(x) : x \in Strings}

Small == {VNum(-12), VStr(<<Ch.quote>>), VArr(<<VNull>>)}

ArraysOf(vals) == {VArr(xs) : xs \in UNION {[1..n -> vals] : n \in 0..MaxArr}}

ObjectKeys == {<<98>>, <<97>>, <<97, Ch.quote>>}

ObjectsOf(vals) ==
  {MapInsert(MapInsert(VObj(<<>>, <<>>), k1, v1), k2, v2) :
     k1 \in ObjectKeys, k2 \in ObjectKeys, v1 \in vals, v2 \in vals}

Docs ==
  Scalars \cup ArraysOf(Small) \cup ObjectsOf(Small)
  \cup {VObj(<<>>, <<>>), DocPlain, DocMcpObject, DocMcpBad, DocEmptyList, DocOneServer}

CodecInit ==
  /\ store = <<>>
  /\ last = NoCall
  /\ codec = CodecIdle

EncodeDoc(doc) ==
  /\ codec.op = "none"
  /\ codec' = [CodecIdle EXCEPT !.op = "encode", !.doc = doc,
                                !.bytes = encode_json_to_bytes(doc)]
  /\ UNCHANGED <<store, last>>

DecodeReturns(r) ==
  /\ codec' = [codec EXCEPT !.op = "decode", !.ok = r.ok, !.err = r.err, !.v = r.v]
  /\ UNCHANGED <<store, last>>

DecodeBytes == codec.op = "encode" /\ DecodeReturns(decode_utf16_le_bytes(codec.bytes))

CodecNext ==
  \/ \E doc \in Docs : EncodeDoc(doc)
  \/ DecodeBytes
  \/ Return

CodecSpec == CodecInit /\ [][CodecNext]_vars

(***************************************************************************)
(* Properties.  They are stated on the state a call leaves: last holds the *)
(* call, its result, the store before (last.pre) and the puts; store is    *)
(* the store after.                                                        *)
(***************************************************************************)
Mutation == last.op \in {"write", "add", "remove"}

\* The number of records of a list that carry an identifier.
Count(servers, id) == Cardinality({i \in 1..Len(servers) : servers[i].id = id})

DistinctIds(servers) ==
  \A i, j \in 1..Len(servers) : servers[i].id = servers[j].id => i = j

\* The entry carries a document with a top-level string field "mcp".
HasMcpString(e) ==
  /\ e.json_data # <<>>
  /\ ValueGet(e.json_data[1], TxtMcp) # <<>>
  /\ ValueGet(e.json_data[1], TxtMcp)[1].t = "str"

McpString(e) == ValueGet(e.json_data[1], TxtMcp)[1].s

\* The index of the first entry with a string "mcp", 0 when there is none.
FirstMcpString(entries) ==
  IF \A k \in 1..Len(entries) : ~HasMcpString(entries[k]) THEN 0
  ELSE CHOOSE k \in 1..Len(entries) :
         HasMcpString(entries[k]) /\ \A j \in 1..(k - 1) : ~HasMcpString(entries[j])

\* C1: a successful write_mcp_config / add_server / remove_server issues
\* exactly one put, the key of the put is the key of the entry in which "mcp"
\* was located, and the value under every other key is unchanged.
C1_PutUnderOriginalKey ==
  (Mutation /\ last.ok) =>
    LET found == find_mcp_config_internal(last.pre) IN
      /\ Len(last.puts) = 1
      /\ last.puts[1].key = found.key
      /\ Len(store) = Len(last.pre)
      /\ \A k \in 1..Len(store) : k # found.key => store[k] = last.pre[k]

\* C2: the document a successful mutation writes back differs from the
\* located parent document only in the value of "mcp", which is a JSON
\* string; and the parent document located afterwards is the written one, so
\* the fields other than "mcp" keep their values over any sequence of calls.
C2_OtherFieldsPreserved ==
  (Mutation /\ last.ok) =>
    /\ Len(last.puts) = 1
    /\ LET parent == find_mcp_config_internal(last.pre).json_data
           written == decode_utf16_le_bytes(last.puts[1].value)
           after == find_mcp_config_internal(store)
       IN /\ written.ok
          /\ written.v.t = "obj"
          /\ written.v.k = parent.k
          /\ \A i \in 1..Len(parent.k) :
               IF parent.k[i] = TxtMcp THEN written.v.c[i].t = "str"
               ELSE written.v.c[i] = parent.c[i]
          /\ after.ok
          /\ after.json_data = written.v

C2_Witness ==
  /\ last.op = "add"
  /\ last.ok
  /\ Len(last.puts) = 1
  /\ ValueGet(decode_utf16_le_bytes(last.puts[1].value).v, TxtOther) = <<VNum(1)>>
  /\ Len(find_mcp_config_internal(store).config) = 2

\* C3: remove_server(id) on a stored list L none of whose records carries
\* id returns ServerNotFound and issues no put, every key keeps its value,
\* and list_servers afterwards returns exactly L.
C3_RemoveAbsent ==
  LET before == read_mcp_config(last.pre) IN
    (last.op = "remove" /\ before.ok /\ Count(before.servers, last.id) = 0) =>
      /\ ~last.ok
      /\ last.err = "ServerNotFound"
      /\ last.puts = <<>>
      /\ store = last.pre
      /\ list_servers(store).ok
      /\ list_servers(store).servers = before.servers

C3_Witness ==
  /\ last.op = "remove"
  /\ last.err = "ServerNotFound"
  /\ list_servers(store).servers = <<SrvA1>>

\* C4 as the spec states it: add_server(r) when a record with identifier
\* r.id is present succeeds, the list afterwards has the same length as
\* before and exactly one record with r.id, which carries r's values.
C4_SameLength ==
  LET before == read_mcp_config(last.pre)
      after == read_mcp_config(store)
  IN (last.op = "add" /\ before.ok /\ Count(before.servers, last.id) >= 1) =>
       /\ last.ok
       /\ after.ok
       /\ Len(after.servers) = Len(before.servers)
       /\ Count(after.servers, last.id) = 1
       /\ \E i \in 1..Len(after.servers) : after.servers[i] = ServerResponseFrom(last.server)

\* C4, amended: add_server(r) when records with identifier r.id are present
\* succeeds; every one of them is removed and r is appended, so the list
\* afterwards is shorter by their number less one (of the same length when
\* exactly one was present), holds exactly one record with r.id, which
\* carries r's values, and keeps the other records in their order.
C4_ReplacesAll ==
  LET before == read_mcp_config(last.pre)
      after == read_mcp_config(store)
  IN (last.op = "add" /\ before.ok /\ Count(before.servers, last.id) >= 1) =>
       /\ last.ok
       /\ after.ok
       /\ Len(after.servers) = Len(before.servers) - Count(before.servers, last.id) + 1
       /\ Count(after.servers, last.id) = 1
       /\ after.servers[Len(after.servers)] = ServerResponseFrom(last.server)
       /\ SubSeq(after.servers, 1, Len(after.servers) - 1)
            = SelectSeq(before.servers, LAMBDA s : s.id # last.id)

C4_Witness ==
  /\ last.op = "add"
  /\ last.ok
  /\ read_mcp_config(last.pre).servers = <<SrvA1, SrvB1>>
  /\ read_mcp_config(store).servers = <<SrvB1, SrvA2>>

\* C5: from a stored list with pairwise distinct identifiers a successful
\* add_server or remove_server leaves a stored list with pairwise distinct
\* identifiers, and after a successful add_server(r) on any stored list
\* exactly one record has identifier r.id.
C5_UniqueIds ==
  LET before == read_mcp_config(last.pre)
      after == read_mcp_config(store)
  IN /\ (last.op \in {"add", "remove"} /\ last.ok /\ DistinctIds(before.servers)) =>
          (after.ok /\ DistinctIds(after.servers))
     /\ (last.op = "add" /\ last.ok) =>
          (after.ok /\ Count(after.servers, last.id) = 1)

C5_Witness ==
  /\ last.op = "add"
  /\ last.ok
  /\ ~DistinctIds(read_mcp_config(last.pre).servers)
  /\ Count(read_mcp_config(store).servers, last.id) = 1

\* C6: after a successful add_server(r), list_servers returns a list that
\* holds a record with r's fields and server_exists(r.id) is true; after a
\* successful remove_server(id), server_exists(id) is false; the total_count
\* of list_servers is the length of the list it returns.
C6_ReadAfterWrite ==
  /\ (last.op = "add" /\ last.ok) =>
       /\ list_servers(store).ok
       /\ \E i \in 1..Len(list_servers(store).servers) :
            list_servers(store).servers[i] = ServerResponseFrom(last.server)
       /\ server_exists(store, last.id).ok
       /\ server_exists(store, last.id).exists
  /\ (last.op = "remove" /\ last.ok) =>
       /\ server_exists(store, last.id).ok
       /\ ~server_exists(store, last.id).exists
  /\ last.op = "list" => last.total_count = Len(last.servers)
  /\ last.op # "none" => list_servers(store).total_count = Len(list_servers(store).servers)

C6_Witness ==
  /\ last.op = "add"
  /\ last.ok
  /\ Len(last.pre) = 2
  /\ \A k \in 1..2 : decode_utf16_le_bytes(last.pre[k]).ok
  /\ find_mcp_config_internal(last.pre).key = 2
  /\ list_servers(store).total_count = 2

\* C7: read_mcp_config returns the config of the first entry, in scan
\* order, whose value decodes to a document with a top-level string "mcp";
\* entries that did not decode, that have no "mcp" or whose "mcp" is no
\* string are passed over, later matching entries are ignored, and without
\* any matching entry the result is ConfigNotFound.
C7_FirstMatch ==
  last.op = "read" =>
    LET entries == open_database_and_read_entries(last.pre)
        m == FirstMcpString(entries)
    IN IF m = 0 THEN ~last.ok /\ last.err = "ConfigNotFound"
       ELSE IF ConfigFromStr(McpString(entries[m])).ok
       THEN last.ok /\ last.servers = ConfigFromStr(McpString(entries[m])).servers
       ELSE ~last.ok /\ last.err = "JsonError"

C7_Witness ==
  /\ last.op = "read"
  /\ last.ok
  /\ last.servers = <<>>
  /\ Len(last.pre) = 2
  /\ last.pre[1] = ValMcpObject
  /\ last.pre[2] = ValEmptyList

\* C8: when the first entry with a top-level string "mcp" holds a string
\* that does not parse as a config, every operation fails with JsonError and
\* issues no put, whatever the later entries hold.
C8_ParseFailureIsAnError ==
  last.op # "none" =>
    LET entries == open_database_and_read_entries(last.pre)
        m == FirstMcpString(entries)
    IN (m # 0 /\ ~ConfigFromStr(McpString(entries[m])).ok) =>
         /\ ~last.ok
         /\ last.err = "JsonError"
         /\ last.puts = <<>>
         /\ store = last.pre

C8_Witness ==
  /\ last.op = "add"
  /\ last.err = "JsonError"
  /\ Len(last.pre) = 2
  /\ last.pre[2] = ValOneServer
  /\ store = last.pre

\* The value is malformed: empty, of an odd payload length, no valid
\* UTF-16, or no JSON text.
Malformed(v) ==
  \/ v = <<>>
  \/ (Len(v) - 1) % 2 = 1
  \/ ~FromUtf16(FromLeBytes(Tail(v))).ok
  \/ ~FromStr(FromUtf16(FromLeBytes(Tail(v))).txt).ok

\* C9 as the spec states it: the scan keeps every value, and a value that
\* is malformed or whose first byte is not 0 gets no document.
C9_ShapeChecked ==
  last.op # "none" =>
    LET entries == open_database_and_read_entries(last.pre) IN
      /\ Len(entries) = Len(last.pre)
      /\ \A k \in 1..Len(entries) :
           /\ entries[k].value = last.pre[k]
           /\ (Malformed(last.pre[k]) \/ last.pre[k][1] # 0) => entries[k].json_data = <<>>

\* C9, amended: the scan keeps every value, whatever the values before it; a
\* malformed value (empty, odd payload length, invalid UTF-16, invalid JSON
\* text) gets no document and does not end the scan; the first byte of a
\* value is not looked at, so a value whose first byte is not 0 gets the
\* document of its payload.
C9_HeaderNotChecked ==
  last.op # "none" =>
    LET entries == open_database_and_read_entries(last.pre) IN
      /\ Len(entries) = Len(last.pre)
      /\ \A k \in 1..Len(entries) :
           /\ entries[k].key = k
           /\ entries[k].value = last.pre[k]
           /\ Malformed(last.pre[k]) <=> entries[k].json_data = <<>>
           /\ last.pre[k] # <<>> =>
                entries[k].json_data
                  = EntryOf(k, last.pre[k],
                            decode_utf16_le_bytes(<<0>> \o Tail(last.pre[k]))).json_data
      /\ (/\ last.op = "read"
          /\ \E k \in 1..Len(entries) :
               /\ entries[k].value = ValOneServer
               /\ \A j \in 1..(k - 1) : Malformed(last.pre[j]))
         => (last.ok /\ last.servers = <<SrvA1>>)

C9_Witness ==
  /\ last.op = "read"
  /\ last.ok
  /\ Len(last.pre) = 2
  /\ last.pre[1] = ValBadUtf16
  /\ last.pre[2] = ValHeader

\* C10: decoding the encoding of a document succeeds and gives the document;
\* the encoding is one byte 0 followed by the UTF-16 code units of the
\* compact serialization, each as its low and its high byte, so its length
\* is odd.
C10_RoundTrip ==
  codec.op = "decode" =>
    LET units == EncodeUtf16(Ser(codec.doc)) IN
      /\ codec.ok
      /\ codec.v = codec.doc
      /\ codec.bytes[1] = 0
      /\ Len(codec.bytes) % 2 = 1
      /\ Len(codec.bytes) = 1 + 2 * Len(units)
      /\ \A i \in 1..Len(units) :
           /\ codec.bytes[2 * i] = units[i] % 256
           /\ codec.bytes[2 * i + 1] = units[i] \div 256

C10_Witness ==
  /\ codec.op = "decode"
  /\ codec.ok
  /\ codec.doc = VStr(<<97, Ch.quote, Ch.tab, 8364>>)
  /\ codec.v = codec.doc

====
